---------------------------- MODULE Spec2Model ----------------------------
(***************************************************************************)
(* Model of goatools/anno/init/reader_gaf.py: the GAF reader (InitAssc),   *)
(* the per-line field conversion and the validation pass (GafData) and the *)
(* header accumulator (GafHdr).                                            *)
(*                                                                         *)
(* A Python str is a sequence of one-character strings; None is the empty  *)
(* tuple and a present optional value v is <<v>>.  A call that can raise   *)
(* returns [ok |-> TRUE, val |-> v] or [ok |-> FALSE, exc |-> name].       *)
(***************************************************************************)
EXTENDS Integers, Sequences, FiniteSets, TLC

None == <<>>
Some(v) == <<v>>
Ok(v) == [ok |-> TRUE, val |-> v]
Raise(e) == [ok |-> FALSE, exc |-> e]

(***************************************************************************)
(* Python built-ins on str, as far as the reader uses them.                *)
(***************************************************************************)
TAB == "\t"
NL == "\n"
Whitespace == {" ", TAB, NL}
Digits == <<"0", "1", "2", "3", "4", "5", "6", "7", "8", "9">>
Upper == <<"A", "B", "C", "D", "E", "F", "G", "H", "I", "J", "K", "L", "M",
           "N", "O", "P", "Q", "R", "S", "T", "U", "V", "W", "X", "Y", "Z">>
Lower == <<"a", "b", "c", "d", "e", "f", "g", "h", "i", "j", "k", "l", "m",
           "n", "o", "p", "q", "r", "s", "t", "u", "v", "w", "x", "y", "z">>

Range(s) == {s[i] : i \in DOMAIN s}
IsDigit(c) == c \in Range(Digits)
\* \w of the re module, on the characters of this model
IsWord(c) == c \in Range(Digits) \cup Range(Upper) \cup Range(Lower) \cup {"_"}

\* s[a:b] with 0-based, clamped bounds
Slice(s, a, b) == SubSeq(s, a + 1, IF b < Len(s) THEN b ELSE Len(s))
\* s[a:]
SliceFrom(s, a) == SubSeq(s, a + 1, Len(s))

\* str.split(sep) with a one-character separator
RECURSIVE split(_, _)
split(s, sep) ==
  IF \A i \in DOMAIN s : s[i] # sep
  THEN <<s>>
  ELSE LET i == CHOOSE k \in DOMAIN s : s[k] = sep /\ \A j \in 1..(k - 1) : s[j] # sep
       IN  <<SubSeq(s, 1, i - 1)>> \o split(SubSeq(s, i + 1, Len(s)), sep)

RECURSIVE lstrip(_)
lstrip(s) == IF s # <<>> /\ s[1] \in Whitespace THEN lstrip(Tail(s)) ELSE s

RECURSIVE rstrip(_)
rstrip(s) ==
  IF s # <<>> /\ s[Len(s)] \in Whitespace THEN rstrip(SubSeq(s, 1, Len(s) - 1)) ELSE s

strip(s) == lstrip(rstrip(s))

lower_char(c) ==
  IF c \in Range(Upper) THEN Lower[CHOOSE i \in DOMAIN Upper : Upper[i] = c] ELSE c

lower(s) == [i \in DOMAIN s |-> lower_char(s[i])]

\* "\n".join(parts) and friends
RECURSIVE join(_, _)
join(sep, parts) ==
  IF parts = <<>> THEN <<>>
  ELSE IF Len(parts) = 1 THEN parts[1]
  ELSE parts[1] \o <<sep>> \o join(sep, Tail(parts))

DigitVal(c) == (CHOOSE i \in DOMAIN Digits : Digits[i] = c) - 1

RECURSIVE DecimalValue(_)
DecimalValue(s) ==
  IF s = <<>> THEN 0
  ELSE 10 * DecimalValue(SubSeq(s, 1, Len(s) - 1)) + DigitVal(s[Len(s)])

\* int(s) on a str of this model's characters: a non-empty run of decimal
\* digits converts, anything else raises ValueError.  (int also accepts a
\* sign, surrounding blanks and underscores; no field enumerated below has
\* a digit next to one of those.)
int(s) ==
  IF s # <<>> /\ \A i \in DOMAIN s : IsDigit(s[i])
  THEN Ok(DecimalValue(s))
  ELSE Raise("ValueError")


(***************************************************************************)
(* class GafData: class attributes.  Column numbers are 0-based as in the  *)
(* source; a row r holds column c at r[c + 1].                             *)
(***************************************************************************)
spec_req1 == <<0, 1, 2, 4, 6, 8, 11, 13, 14>>

req_str == <<"REQ", "REQ", "REQ", "", "REQ", "REQ", "REQ", "", "REQ", "", "",
             "REQ", "REQ", "REQ", "REQ", "", "">>

V10 == <<"1", ".", "0">>
V20 == <<"2", ".", "0">>
V21 == <<"2", ".", "1">>

aspect2ns ==
  [a \in {<<"P">>, <<"F">>, <<"C">>} |->
     IF a = <<"P">> THEN <<"B", "P">>
     ELSE IF a = <<"F">> THEN <<"M", "F">> ELSE <<"C", "C">>]

gafhdr == <<"DB", "DB_ID", "DB_Symbol", "Qualifier", "GO_ID", "DB_Reference",
            "Evidence_Code", "With_From", "NS", "DB_Name", "DB_Synonym",
            "DB_Type", "Taxon", "Date", "Assigned_By">>

gafhdr2 == <<"Extension", "Gene_Product_Form_ID">>

gaf_columns == [v \in {V21, V20, V10} |-> IF v = V10 THEN gafhdr ELSE gafhdr \o gafhdr2]

gaf_numcol == [v \in {V21, V20, V10} |-> IF v = V10 THEN Len(gafhdr) ELSE Len(gafhdr \o gafhdr2)]

\* GafData.__init__ falling back to the 2.1 columns for a version it does not know
GafData_default21(ver, allow_missing_symbol) ==
  IF ver = None THEN Raise("TypeError")
  ELSE IF ver[1] = <<>> THEN Raise("IndexError")
  ELSE Ok([ver |-> ver[1],
           is_long |-> ver[1][1] = "2",
           flds |-> IF ver[1] = V10 THEN gafhdr ELSE gafhdr \o gafhdr2,
           req1 |-> IF ~allow_missing_symbol THEN spec_req1
                    ELSE SelectSeq(spec_req1, LAMBDA i : i # 2),
           ignored |-> <<>>,
           illegal_lines |-> <<>>])

\* GafData.__init__(ver, allow_missing_symbol); ver is None or Some(str)
GafData(ver, allow_missing_symbol) ==
  IF ver = None THEN Raise("TypeError")                   \* None[0]
  ELSE IF ver[1] = <<>> THEN Raise("IndexError")          \* ""[0]
  ELSE IF ver[1] \notin DOMAIN gaf_columns THEN Raise("KeyError")
  ELSE Ok([ver |-> ver[1],
           is_long |-> ver[1][1] = "2",
           flds |-> gaf_columns[ver[1]],
           req1 |-> IF ~allow_missing_symbol THEN spec_req1
                    ELSE SelectSeq(spec_req1, LAMBDA i : i # 2),
           ignored |-> <<>>,
           illegal_lines |-> <<>>])

(***************************************************************************)
(* Field conversions.                                                      *)
(***************************************************************************)
_get_qualifier(val) ==
  IF val = <<>> THEN {}
  ELSE {IF lower(v) # <<"n", "o", "t">> THEN lower(v) ELSE <<"N", "O", "T">> :
          v \in Range(split(val, "|"))}

_get_set(val) == IF val # <<>> THEN Range(split(val, "|")) ELSE {}

_get_list(val) == IF val # <<>> THEN split(val, "|") ELSE <<>>

RECURSIVE ints(_)
ints(strs) ==
  IF strs = <<>> THEN Ok(<<>>)
  ELSE LET head == int(strs[1])
           rest == ints(Tail(strs))
       IN  IF ~head.ok THEN head
           ELSE IF ~rest.ok THEN rest
           ELSE Ok(<<head.val>> \o rest.val)

_do_taxons(taxon_str) ==
  LET taxons == _get_list(taxon_str)
      parts == [i \in DOMAIN taxons |-> split(taxons[i], ":")]
  IN  IF \E i \in DOMAIN parts : Len(parts[i]) < 2
      THEN Raise("IndexError")                            \* v.split(':')[1]
      ELSE LET taxons_str == [i \in DOMAIN parts |-> parts[i][2]]
           IN  ints(SelectSeq(taxons_str, LAMBDA s : s # <<>>))

\* AnnoReaderBase.get_date_yyyymmdd: an 8-digit YYYYMMDD literal becomes a
\* calendar date, anything else raises
GET_DATE_YYYYMMDD(yyyymmdd) ==
  IF Len(yyyymmdd) = 8 /\ \A i \in DOMAIN yyyymmdd : IsDigit(yyyymmdd[i])
  THEN LET y == DecimalValue(Slice(yyyymmdd, 0, 4))
           m == DecimalValue(Slice(yyyymmdd, 4, 6))
           d == DecimalValue(SliceFrom(yyyymmdd, 6))
       IN  IF m \in 1..12 /\ d \in 1..31 THEN Ok(<<y, m, d>>) ELSE Raise("ValueError")
  ELSE Raise("ValueError")

\* goatools.anno.extensions.factory.get_extensions: an opaque structured value
get_extensions(extstr) == IF extstr # <<>> THEN Some(extstr) ELSE None

\* GafData.get_gafvals(line).  flds[k] raises IndexError when the row has no
\* column k; the statements run in column order, so the first failing one
\* decides the exception.
get_gafvals(self, line) ==
  LET flds == split(line, TAB)
      n == Len(flds)
      last == IF self.is_long THEN 16 ELSE 14
  IN  IF n <= 8 THEN Raise("IndexError")                  \* flds[3] .. flds[8]
      ELSE IF flds[9] \notin DOMAIN aspect2ns THEN Raise("KeyError")
      ELSE IF n <= 12 THEN Raise("IndexError")            \* flds[9] .. flds[12]
      ELSE IF ~_do_taxons(flds[13]).ok THEN _do_taxons(flds[13])
      ELSE IF n <= 13 THEN Raise("IndexError")            \* flds[13]
      ELSE IF ~GET_DATE_YYYYMMDD(flds[14]).ok THEN GET_DATE_YYYYMMDD(flds[14])
      ELSE IF n <= last THEN Raise("IndexError")          \* flds[15], flds[16] or flds[14]
      ELSE Ok([i \in 1..n |->
                 CASE i - 1 = 3 -> _get_qualifier(flds[i])
                   [] i - 1 \in {5, 7, 9, 10} -> _get_set(flds[i])
                   [] i - 1 = 8 -> aspect2ns[flds[i]]
                   [] i - 1 = 12 -> _do_taxons(flds[i]).val
                   [] i - 1 = 13 -> GET_DATE_YYYYMMDD(flds[i]).val
                   [] i - 1 = 14 /\ ~self.is_long -> _get_set(rstrip(flds[i]))
                   [] i - 1 = 15 /\ self.is_long -> get_extensions(flds[i])
                   [] i - 1 = 16 /\ self.is_long -> _get_set(rstrip(flds[i]))
                   [] OTHER -> flds[i]])

\* GafData.get_ntobj()._make(gafvals): namedtuple._make wants one value per field
ntobj_make(self, gafvals) ==
  IF Len(gafvals) # Len(self.flds) THEN Raise("TypeError") ELSE Ok(gafvals)

(***************************************************************************)
(* Validation pass.  illegal_lines is the defaultdict(list) in insertion   *)
(* order: a sequence of [err, lines], lines a sequence of <<number, text>>.*)
(* A formatted message is kept as the record of its format arguments.      *)
(***************************************************************************)
\* self.illegal_lines[err].append(entry)
illegal_append(illegal_lines, err, entry) ==
  IF \E i \in DOMAIN illegal_lines : illegal_lines[i].err = err
  THEN LET i == CHOOSE k \in DOMAIN illegal_lines : illegal_lines[k].err = err
       IN  [illegal_lines EXCEPT ![i].lines = Append(@, entry)]
  ELSE Append(illegal_lines, [err |-> err, lines |-> <<entry>>])

\* getattr(ntd, name)
getattr(self, ntd, name) == ntd[CHOOSE i \in DOMAIN self.flds : self.flds[i] = name]

\* len() of a converted field: Taxon is a list, the other checked fields are sets
len(name, vals) == IF name = "Taxon" THEN Len(vals) ELSE Cardinality(vals)

\* _chk_fld comparing with <= where the source has <
_chk_fld_le(self, illegal_lines, ntd, name, qty_min, qty_max) ==
  LET vals == getattr(self, ntd, name)
      num_vals == len(name, vals)
      il1 == IF num_vals <= qty_min
             THEN illegal_append(illegal_lines, "MIN QTY",
                                 <<-1, [fmt |-> "MIN QUANTITY", F |-> name, Q |-> qty_min, V |-> vals]>>)
             ELSE illegal_lines
  IN  IF qty_max # None /\ num_vals > qty_max[1]
      THEN illegal_append(il1, "MAX QTY",
                          <<-1, [fmt |-> "MAX QUANTITY", F |-> name, Q |-> qty_max[1], V |-> vals, NT |-> ntd]>>)
      ELSE il1

\* GafData._chk_fld(ntd, name, qty_min, qty_max); qty_max is None or Some(n).
\* Returns illegal_lines after the call.
_chk_fld(self, illegal_lines, ntd, name, qty_min, qty_max) ==
  LET vals == getattr(self, ntd, name)
      num_vals == len(name, vals)
      il1 == IF num_vals < qty_min
             THEN illegal_append(illegal_lines, "MIN QTY",
                                 <<-1, [fmt |-> "MIN QUANTITY", F |-> name, Q |-> qty_min, V |-> vals]>>)
             ELSE illegal_lines
  IN  IF qty_max # None /\ num_vals > qty_max[1]
      THEN illegal_append(il1, "MAX QTY",
                          <<-1, [fmt |-> "MAX QUANTITY", F |-> name, Q |-> qty_max[1], V |-> vals, NT |-> ntd]>>)
      ELSE il1

\* `not flds[col]` on a converted row: the date is always true, column 14 of
\* a 1.0 row is a set, the other required columns are str
falsy(self, flds, col) ==
  IF col = 13 THEN FALSE
  ELSE IF col = 14 /\ ~self.is_long THEN flds[col + 1] = {}
  ELSE flds[col + 1] = <<>>

\* GafData._chk_qty_eq_1(flds), over the columns req1[k..]
RECURSIVE _chk_qty_eq_1_from(_, _, _, _)
_chk_qty_eq_1_from(self, illegal_lines, flds, k) ==
  IF k > Len(self.req1) THEN illegal_lines
  ELSE LET col == self.req1[k]
           il2 == IF falsy(self, flds, col)
                  THEN illegal_append(
                         illegal_append(illegal_lines, "QTY 1",
                                        <<-1, [fmt |-> "UNEXPECTED REQUIRED VAL", V |-> flds[col + 1],
                                               H |-> gafhdr[col + 1], R |-> col]>>),
                         "QTY 1",
                         <<-1, [fmt |-> "DB DB_ID", DB |-> flds[1], ID |-> flds[2]]>>)
                  ELSE illegal_lines
       IN  _chk_qty_eq_1_from(self, il2, flds, k + 1)

_chk_qty_eq_1(self, illegal_lines, flds) == _chk_qty_eq_1_from(self, illegal_lines, flds, 1)

\* the body of the loop of GafData.chk for record ntd at index idx
chk_one(self, illegal_lines, idx, ntd) ==
  LET il1 == _chk_fld(self, illegal_lines, ntd, "Qualifier", 0, None)
      il2 == _chk_fld(self, il1, ntd, "DB_Reference", 1, None)
      il3 == _chk_fld(self, il2, ntd, "With_From", 0, None)
      il4 == _chk_fld(self, il3, ntd, "DB_Name", 0, Some(1))
      il5 == _chk_fld(self, il4, ntd, "DB_Synonym", 0, None)
      il6 == _chk_fld(self, il5, ntd, "Taxon", 1, Some(2))
      il7 == _chk_qty_eq_1(self, il6, ntd)
      Taxon == getattr(self, ntd, "Taxon")
  IN  IF Taxon = <<>> \/ Len(Taxon) \notin {1, 2}
      THEN illegal_append(il7, "BAD TAXON", <<idx, [fmt |-> "TAXON", I |-> idx, NT |-> ntd]>>)
      ELSE il7

RECURSIVE chk_loop(_, _, _, _)
chk_loop(self, illegal_lines, annotations, idx) ==
  IF idx >= Len(annotations) THEN illegal_lines
  ELSE chk_loop(self, chk_one(self, illegal_lines, idx, annotations[idx + 1]), annotations, idx + 1)

\* GafData.prt_error_summary(fout_err) -> _wrlog_details_illegal_gaf: what
\* open(fout_err, 'w') holds afterwards.  The first two lines are the title
\* and a blank line; the counts and the details stay structured.
prt_error_summary(self) ==
  [log |-> TRUE,
   lines |-> <<"LOG_TITLE", "LOG_BLANK">>,
   errcnts |-> (IF self.ignored # <<>> THEN <<<<Len(self.ignored), "IGNORED associations">>>> ELSE <<>>)
               \o [i \in DOMAIN self.illegal_lines |->
                     <<Len(self.illegal_lines[i].lines), self.illegal_lines[i].err>>],
   ignored |-> self.ignored,
   illegal |-> self.illegal_lines]

\* GafData.chk(annotations, fout_err): the engine afterwards, the return
\* value, and whether (and what) it wrote to fout_err
chk(self, annotations) ==
  LET il == chk_loop(self, self.illegal_lines, annotations, 0)
      after == [self EXCEPT !.illegal_lines = il]
  IN  [self |-> after,
       ret |-> (il = <<>>),
       wrote |-> IF il # <<>> THEN Some(prt_error_summary(after)) ELSE None]

\* class GafHdr.  cmpline is the pattern  ^!(\w[\w\s-]+:.*)$  with search():
\* the character after "!" is a word character, at least one more character
\* of [\w\s-] follows, up to the first ":".  "." does not match the newline
\* and "$" matches before a final newline, so group(1) is the line without
\* its "!" and without its newline.
cmpline(line) ==
  LET body == IF line # <<>> /\ line[Len(line)] = NL THEN SubSeq(line, 1, Len(line) - 1) ELSE line
  IN  IF /\ Len(body) >= 4
         /\ body[1] = "!"
         /\ IsWord(body[2])
         /\ \E k \in 4..Len(body) :
              /\ body[k] = ":"
              /\ \A j \in 3..(k - 1) : IsWord(body[j]) \/ body[j] \in Whitespace \/ body[j] = "-"
              /\ NL \notin Range(body)
      THEN Some(SliceFrom(body, 1))
      ELSE None

\* GafHdr.chkaddhdr(line), on the list self.gafhdr
chkaddhdr(hdr_lines, line) ==
  IF cmpline(line) # None THEN Append(hdr_lines, cmpline(line)[1]) ELSE hdr_lines

\* GafHdr.get_hdr()
get_hdr(hdr_lines) == join(NL, hdr_lines)

(***************************************************************************)
(* Input.  A file is a sequence of line names; LineText gives the text of  *)
(* a line as the reader gets it from the stream, newline included.         *)
(***************************************************************************)
MaxLines == 3
MaxCalls == 2
MaxChk == 2
MaxAnno == 2
MaxTok == 3

gaf_version_key == <<"g", "a", "f", "-", "v", "e", "r", "s", "i", "o", "n", ":">>
taxon_9606 == <<"t", "a", "x", "o", "n", ":", "9", "6", "0", "6">>
taxon_10116 == <<"t", "a", "x", "o", "n", ":", "1", "0", "1", "1", "6">>
taxon_none == <<"t", "a", "x", "o", "n", ":">>
taxon_x == <<"t", "a", "x", "o", "n", ":", "x">>

\* a well-formed 17-column row, by column
Fields17 ==
  << <<"U">>, <<"P", "1">>, <<"S">>, <<"N", "o", "t">>, <<"G", "O", ":", "1">>,
     <<"P", "M", "I", "D", ":", "1">>, <<"I", "M", "P">>, <<>>, <<"P">>, <<"T", "l", "r">>,
     <<>>, <<"p">>, taxon_9606, <<"2", "0", "0", "9", "0", "1", "1", "8">>, <<"S", "G", "D">>,
     <<>>, <<>> >>

With(fields, col, val) == [fields EXCEPT ![col + 1] = val]
Row(fields) == join(TAB, fields) \o <<NL>>

HeaderLines == {"H21", "H10", "H30", "H00", "HFREE"}
DataLines == {"D17", "D15", "D16", "D17X", "D17T"}
LineNames == HeaderLines \cup DataLines

LineText(name) ==
  CASE name = "H21" -> <<"!">> \o gaf_version_key \o <<" ", "2", ".", "1", NL>>
    [] name = "H10" -> <<"!">> \o gaf_version_key \o <<" ", "1", ".", "0", NL>>
    [] name = "H30" -> <<"!">> \o gaf_version_key \o <<" ", "3", ".", "0", NL>>
    [] name = "H00" -> <<"!">> \o gaf_version_key \o <<NL>>
    [] name = "HFREE" -> <<"!", "f", "r", "e", "e", " ", "t", "e", "x", "t", NL>>
    [] name = "D17" -> Row(Fields17)
    [] name = "D15" -> Row(SubSeq(Fields17, 1, 15))
    [] name = "D16" -> Row(SubSeq(Fields17, 1, 16))
    [] name = "D17X" -> Row(With(Fields17, 8, <<"X">>))
    [] name = "D17T" -> Row(With(Fields17, 12, taxon_none))
    [] name = "LOG_TITLE" -> <<"I", "L", "L", "E", "G", "A", "L", " ", "G", "A", "F", " ",
                               "E", "R", "R", "O", "R", " ", "S", "U", "M", "M", "A", "R", "Y", ":", NL>>
    [] name = "LOG_BLANK" -> <<NL>>

RECURSIVE SeqsUpTo(_, _)
SeqsUpTo(S, n) ==
  IF n = 0 THEN {<<>>}
  ELSE LET shorter == SeqsUpTo(S, n - 1)
       IN  shorter \cup {Append(q, x) : q \in shorter, x \in S}

GafFile(names) == [log |-> FALSE, lines |-> names, errcnts |-> <<>>, ignored |-> <<>>, illegal |-> <<>>]
Files == {GafFile(names) : names \in SeqsUpTo(LineNames, MaxLines)}

(***************************************************************************)
(* State.                                                                  *)
(***************************************************************************)
VARIABLES
  fin,                  \* what the file at the path fin_gaf holds
  fout,                 \* what the file at chk's fout_err holds: None or Some(log)
  hdr,                  \* InitAssc.hdr: None or Some(str)
  datobj,               \* InitAssc.datobj, or the engine the caller built: None or Some(GafData)
  pc,                   \* "idle", "reading" (inside _read_gaf_nts) or "exit" (after sys.exit)
  hdr_only,             \* arguments of the running init_associations call
  allow_missing_symbol,
  nts,                  \* locals of _read_gaf_nts
  ver,
  hdrobj,               \* hdrobj.gafhdr
  l_datobj,             \* the local datobj; get_gafvals and ntobj_make are set with it
  lnum,
  annotations,          \* the collection the caller holds: None or Some(nts returned)
  status,               \* exit status of the process: None or Some(n)
  calls,                \* init_associations calls so far
  chk_log,              \* one entry per chk call: its argument, return value and counts
  taxon_str,            \* argument and result of a lone _do_taxons call
  taxons_int

vars == <<fin, fout, hdr, datobj, pc, hdr_only, allow_missing_symbol, nts, ver,
          hdrobj, l_datobj, lnum, annotations, status, calls, chk_log, taxon_str, taxons_int>>

reader_fields == <<hdr, datobj>>
read_locals == <<hdr_only, allow_missing_symbol, nts, ver, hdrobj, l_datobj, lnum>>
chk_vars == <<fout, chk_log>>
taxon_vars == <<taxon_str, taxons_int>>

\* the lines the stream of open(fin_gaf) yields
readlines(file) == [i \in DOMAIN file.lines |-> LineText(file.lines[i])]

\* enumerate(ifstrm, 1): the number of the line the loop takes next
next_lnum == IF lnum < 0 THEN 1 ELSE lnum + 1
next_line == readlines(fin)[next_lnum]

\* state after InitAssc() and before any call
NoCall ==
  /\ hdr = None
  /\ pc = "idle"
  /\ hdr_only = FALSE
  /\ allow_missing_symbol = FALSE
  /\ nts = <<>>
  /\ ver = None
  /\ hdrobj = <<>>
  /\ l_datobj = None
  /\ lnum = -1
  /\ status = None
  /\ calls = 0
  /\ fout = None
  /\ chk_log = <<>>

Init ==
  /\ fin \in Files
  /\ datobj = None
  /\ annotations = None
  /\ taxon_str = <<>>
  /\ taxons_int = None
  /\ NoCall

(***************************************************************************)
(* InitAssc.init_associations and _read_gaf_nts, one step per line read.   *)
(***************************************************************************)
\* entry: init_associations calls _read_gaf_nts, which sets its locals and opens the file
init_associations(h, a) ==
  /\ pc = "idle"
  /\ calls < MaxCalls
  /\ pc' = "reading"
  /\ calls' = calls + 1
  /\ hdr_only' = h
  /\ allow_missing_symbol' = a
  /\ nts' = <<>>
  /\ ver' = None
  /\ hdrobj' = <<>>
  /\ l_datobj' = None
  /\ lnum' = -1
  /\ annotations' = None
  /\ UNCHANGED <<fin, status, reader_fields, chk_vars, taxon_vars>>

\* _read_gaf_nts returns r with self.datobj as d; init_associations goes on:
\* writes the error summary to fin_gaf if self.datobj holds ignored or
\* illegal lines, and returns r.  (The line written to prt, like what goes
\* to stdout and stderr, is output that nothing here reads back.)
returns(r, d) ==
  /\ pc' = "idle"
  /\ datobj' = d
  /\ fin' = IF d # None /\ (d[1].ignored # <<>> \/ d[1].illegal_lines # <<>>)
            THEN prt_error_summary(d[1])
            ELSE fin
  /\ annotations' = Some(r)
  /\ UNCHANGED <<status, chk_vars, taxon_vars>>

\* the except clause: report and sys.exit(1)
fatal ==
  /\ pc' = "exit"
  /\ status' = Some(1)
  /\ UNCHANGED <<fin, datobj, annotations, chk_vars, taxon_vars>>

\* the version taken from every version line, the last one winning
header_version_last(v, line) ==
  IF Slice(line, 1, 13) = gaf_version_key
  THEN Some(strip(SliceFrom(line, 13)))
  ELSE v

\* if ver is None and line[1:13] == 'gaf-version:': ver = line[13:].strip()
header_version(v, line) ==
  IF v = None /\ Slice(line, 1, 13) = gaf_version_key
  THEN Some(strip(SliceFrom(line, 13)))
  ELSE v

\* a line starting with "!" while no GafData exists
read_header_line ==
  /\ pc = "reading"
  /\ next_lnum <= Len(fin.lines)
  /\ l_datobj = None
  /\ next_line[1] = "!"
  /\ lnum' = next_lnum
  /\ ver' = header_version(ver, next_line)
  /\ hdrobj' = chkaddhdr(hdrobj, next_line)
  /\ UNCHANGED <<fin, fout, hdr, datobj, pc, hdr_only, allow_missing_symbol, nts,
                 l_datobj, annotations, status, calls, chk_log, taxon_vars>>

\* the first line not starting with "!", header only: return nts
read_header_end_hdr_only ==
  /\ pc = "reading"
  /\ next_lnum <= Len(fin.lines)
  /\ l_datobj = None
  /\ next_line[1] # "!"
  /\ hdr_only
  /\ lnum' = next_lnum
  /\ hdr' = Some(get_hdr(hdrobj))
  /\ returns(nts, datobj)
  /\ UNCHANGED <<hdr_only, allow_missing_symbol, nts, ver, hdrobj, l_datobj, calls>>

\* the first line not starting with "!", full read: build the GafData
read_header_end ==
  /\ pc = "reading"
  /\ next_lnum <= Len(fin.lines)
  /\ l_datobj = None
  /\ next_line[1] # "!"
  /\ ~hdr_only
  /\ lnum' = next_lnum
  /\ hdr' = Some(get_hdr(hdrobj))
  /\ LET made == GafData(ver, allow_missing_symbol)
     IN  IF made.ok
         THEN /\ l_datobj' = Some(made.val)
              /\ UNCHANGED <<fin, fout, datobj, pc, annotations, status, chk_log,
                             taxon_vars>>
         ELSE /\ fatal
              /\ UNCHANGED l_datobj
  /\ UNCHANGED <<hdr_only, allow_missing_symbol, nts, ver, hdrobj, calls>>

\* a line while get_gafvals is set
read_data_line ==
  /\ pc = "reading"
  /\ next_lnum <= Len(fin.lines)
  /\ l_datobj # None
  /\ lnum' = next_lnum
  /\ LET gafvals == get_gafvals(l_datobj[1], next_line)
         made == ntobj_make(l_datobj[1], gafvals.val)
     IN  IF ~gafvals.ok THEN fatal /\ UNCHANGED <<nts, l_datobj>>
         ELSE IF gafvals.val # <<>>
         THEN IF made.ok
              THEN /\ nts' = Append(nts, made.val)
                   /\ UNCHANGED <<fin, fout, datobj, pc, l_datobj, annotations,
                                  status, chk_log, taxon_vars>>
              ELSE fatal /\ UNCHANGED <<nts, l_datobj>>
         ELSE /\ l_datobj' = Some([l_datobj[1] EXCEPT !.ignored = Append(@, <<next_lnum, next_line>>)])
              /\ UNCHANGED <<fin, fout, datobj, pc, nts, annotations, status,
                             chk_log, taxon_vars>>
  /\ UNCHANGED <<hdr, hdr_only, allow_missing_symbol, ver, hdrobj, calls>>

\* the stream is exhausted: self.datobj = datobj; return nts
read_end ==
  /\ pc = "reading"
  /\ next_lnum > Len(fin.lines)
  /\ returns(nts, l_datobj)
  /\ UNCHANGED <<hdr, hdr_only, allow_missing_symbol, nts, ver, hdrobj, l_datobj, lnum, calls>>

\* the caller validates the collection it holds: self.datobj.chk(annotations, fout_err)
chk_call ==
  /\ pc = "idle"
  /\ datobj # None
  /\ annotations # None
  /\ Len(chk_log) < MaxChk
  /\ LET r == chk(datobj[1], annotations[1])
     IN  /\ datobj' = Some(r.self)
         /\ fout' = IF r.wrote # None THEN r.wrote ELSE fout
         /\ chk_log' = Append(chk_log, [annotations |-> annotations[1],
                                        before |-> datobj[1].illegal_lines,
                                        after |-> r.self.illegal_lines,
                                        ret |-> r.ret])
  /\ UNCHANGED <<fin, hdr, pc, read_locals, annotations, status, calls, taxon_vars>>

Next ==
  \/ \E h \in BOOLEAN, a \in BOOLEAN : init_associations(h, a)
  \/ read_header_line
  \/ read_header_end_hdr_only
  \/ read_header_end
  \/ read_data_line
  \/ read_end
  \/ chk_call

Spec == Init /\ [][Next]_vars

(***************************************************************************)
(* The validation pass on its own: the caller builds a GafData for a       *)
(* supported version and validates a collection of converted rows with it. *)
(***************************************************************************)
taxon_two == taxon_9606 \o <<"|">> \o taxon_10116
taxon_three == taxon_two \o <<"|">> \o taxon_9606

ChkFields ==
  { Fields17,
    With(Fields17, 5, <<>>),                              \* no DB_Reference
    With(Fields17, 9, <<"a", "|", "b">>),                 \* two DB_Name
    With(Fields17, 12, taxon_none),                       \* no taxon id
    With(Fields17, 12, taxon_two),
    With(Fields17, 12, taxon_three),
    With(Fields17, 2, <<>>),                              \* no DB_Symbol
    With(Fields17, 0, <<>>),                              \* no DB
    With(Fields17, 14, <<>>) }                            \* no Assigned_By

\* the records a GafData builds from those rows, cut to its column count
Records(self) ==
  {get_gafvals(self, Row(SubSeq(fields, 1, Len(self.flds)))).val : fields \in ChkFields}

InitChk ==
  /\ fin = GafFile(<<>>)
  /\ \E v \in DOMAIN gaf_columns, a \in BOOLEAN :
       /\ datobj = Some(GafData(Some(v), a).val)
       /\ annotations \in {Some(q) : q \in SeqsUpTo(Records(GafData(Some(v), a).val), MaxAnno)}
  /\ taxon_str = <<>>
  /\ taxons_int = None
  /\ NoCall

NextChk == chk_call

SpecChk == InitChk /\ [][NextChk]_vars

(***************************************************************************)
(* _do_taxons on its own, over fields made of up to MaxTok tokens.         *)
(***************************************************************************)
TaxonTokens ==
  {<<>>, taxon_none, taxon_9606, taxon_10116, taxon_x, <<"x">>, <<"a", ":", "1", ":", "2">>}

TaxonFields == {join("|", toks) : toks \in SeqsUpTo(TaxonTokens, MaxTok)}

InitTaxon ==
  /\ fin = GafFile(<<>>)
  /\ datobj = None
  /\ annotations = None
  /\ taxon_str \in TaxonFields
  /\ taxons_int = None
  /\ NoCall

do_taxons_call ==
  /\ taxons_int = None
  /\ taxons_int' = Some(_do_taxons(taxon_str))
  /\ UNCHANGED <<fin, fout, hdr, datobj, pc, read_locals, annotations, status, calls, chk_log,
                 taxon_str>>

NextTaxon == do_taxons_call

SpecTaxon == InitTaxon /\ [][NextTaxon]_vars

(***************************************************************************)
(* What the properties below compare the reader against: the file read by  *)
(* its line names.                                                         *)
(***************************************************************************)
\* the number of the first line that is no header line, 0 if there is none
FirstData(names) ==
  IF \E i \in DOMAIN names : names[i] \notin HeaderLines
  THEN CHOOSE i \in DOMAIN names :
         names[i] \notin HeaderLines /\ \A j \in 1..(i - 1) : names[j] \in HeaderLines
  ELSE 0

\* the header block
HeaderBlock(names) ==
  IF FirstData(names) = 0 THEN names ELSE SubSeq(names, 1, FirstData(names) - 1)

\* the version a header line declares: None or Some(str)
VersionOf(name) ==
  CASE name = "H21" -> Some(V21)
    [] name = "H10" -> Some(V10)
    [] name = "H30" -> Some(<<"3", ".", "0">>)
    [] name = "H00" -> Some(<<>>)
    [] OTHER -> None

\* the version the header block declares: that of its first version line
DeclaredVersion(names) ==
  LET versions == SelectSeq(HeaderBlock(names), LAMBDA name : VersionOf(name) # None)
  IN  IF versions = <<>> THEN None ELSE VersionOf(versions[1])

Supported == {Some(v) : v \in DOMAIN gaf_columns}

Columns(name) == Len(split(LineText(name), TAB))

\* line i was handed to get_gafvals by the running or the last read
ReadAsData(i) ==
  /\ l_datobj # None
  /\ FirstData(fin.lines) < i
  /\ i <= lnum

\* a read has returned to the caller
Returned == pc = "idle" /\ calls > 0 /\ annotations # None

Counts(illegal_lines) ==
  [i \in DOMAIN illegal_lines |-> <<illegal_lines[i].err, Len(illegal_lines[i].lines)>>]

(***************************************************************************)
(* Properties.                                                             *)
(***************************************************************************)

\* C1: a data line whose column count differs from the count of the active
\* version (15 for 1.0, 17 for 2.0 and 2.1) does not abort the read, adds no
\* record, and is in the ignored bucket with its line number and text when
\* the read returns.  Stated for the lines read after the schema was built.
C1_WrongColumnCountIsIgnored ==
  ~fin.log =>
    /\ \A i \in DOMAIN fin.lines :
         (/\ ReadAsData(i)
          /\ fin.lines[i] \in DataLines
          /\ Columns(fin.lines[i]) # gaf_numcol[l_datobj[1].ver]) =>
           /\ pc # "exit"
           /\ Returned => <<i, LineText(fin.lines[i])>> \in Range(l_datobj[1].ignored)
    /\ l_datobj # None =>
         Len(nts) <= Cardinality({i \in DOMAIN fin.lines :
                                    ReadAsData(i) /\ Columns(fin.lines[i]) = gaf_numcol[l_datobj[1].ver]})

\* C2: a data line with the right column count whose field conversion
\* fails (aspect code outside P, F, C; malformed date; taxon token that is
\* not prefix:integer) does not end the read: the line is in the ignored
\* bucket with its number and text when the read returns.
C2_CoercionFailureIsIgnored ==
  ~fin.log =>
    \A i \in DOMAIN fin.lines :
      (/\ ReadAsData(i)
       /\ fin.lines[i] \in DataLines
       /\ Columns(fin.lines[i]) = gaf_numcol[l_datobj[1].ver]
       /\ ~get_gafvals(l_datobj[1], LineText(fin.lines[i])).ok) =>
        /\ status = None
        /\ Returned => <<i, LineText(fin.lines[i])>> \in Range(l_datobj[1].ignored)

\* the file is a header block declaring the supported version v followed by
\* at least one line, every one a well-formed row of v's column count
WellFormedFile(names, v) ==
  /\ FirstData(names) > 0
  /\ DeclaredVersion(names) = Some(v)
  /\ \A i \in FirstData(names)..Len(names) :
       /\ Columns(names[i]) = gaf_numcol[v]
       /\ get_gafvals(GafData(Some(v), FALSE).val, LineText(names[i])).ok

\* C3: a full read of a header block declaring a supported version followed
\* by n >= 1 well-formed data lines returns n records, the i-th built from
\* the i-th data line.
C3_OneRecordPerDataLine ==
  \A v \in DOMAIN gaf_columns :
    (Returned /\ ~hdr_only /\ ~fin.log /\ WellFormedFile(fin.lines, v)) =>
      LET first == FirstData(fin.lines)
          n == Len(fin.lines) - first + 1
      IN  /\ Len(annotations[1]) = n
          /\ \A i \in 1..n :
               annotations[1][i] =
                 get_gafvals(GafData(Some(v), FALSE).val, LineText(fin.lines[first + i - 1])).val

\* C4: validating the same collection twice in a row with one engine leaves
\* the same count per category after the second call as after the first,
\* and returns the same value.
C4_ValidateTwiceSameCounts ==
  \A i \in DOMAIN chk_log :
    (i + 1 \in DOMAIN chk_log /\ chk_log[i + 1].annotations = chk_log[i].annotations) =>
      /\ Counts(chk_log[i + 1].after) = Counts(chk_log[i].after)
      /\ chk_log[i + 1].ret = chk_log[i].ret

\* a record that breaks no rule of the validation pass
NonEmptyAt(r, col) ==
  IF col = 13 THEN TRUE
  ELSE IF col = 14 /\ Len(r) = Len(gafhdr) THEN r[col + 1] # {}
  ELSE r[col + 1] # <<>>

RecordValid(self, r) ==
  /\ Cardinality(r[6]) >= 1
  /\ Cardinality(r[10]) <= 1
  /\ Len(r[13]) \in {1, 2}
  /\ \A col \in Range(self.req1) : NonEmptyAt(r, col)

\* C5: on a freshly built engine validate returns true exactly if every
\* record has at least one DB_Reference, at most one DB_Name, one or two
\* taxon ids and a value in every required column (the symbol column is not
\* required when missing symbols are allowed); the collection is unchanged.
C5_ValidateIffAllRecordsValid ==
  chk_log # <<>> =>
    /\ chk_log[1].before = <<>>
    /\ chk_log[1].ret <=> \A k \in DOMAIN chk_log[1].annotations :
                            RecordValid(datobj[1], chk_log[1].annotations[k])
    /\ annotations = Some(chk_log[1].annotations)
    /\ (2 \in Range(datobj[1].req1)) <=> (datobj[1].req1 = spec_req1)

C5_Witness ==
  /\ Len(chk_log) = 1
  /\ Len(chk_log[1].annotations) = 2
  /\ chk_log[1].ret
  /\ 2 \notin Range(datobj[1].req1)
  /\ \E k \in 1..2 : chk_log[1].annotations[k][3] = <<>>

\* C6: a full read that reaches a line which is no header line, under a
\* header that declares no version or one other than 1.0, 2.0 and 2.1, is
\* fatal: the process exits with a status other than 0 and the caller gets
\* no collection.
C6_UnsupportedVersionIsFatal ==
  (/\ calls > 0
   /\ ~hdr_only
   /\ FirstData(fin.lines) > 0
   /\ lnum >= FirstData(fin.lines)
   /\ DeclaredVersion(fin.lines) \notin Supported) =>
    /\ pc = "exit"
    /\ status # None
    /\ status[1] # 0
    /\ annotations = None
    /\ l_datobj = None

C6_Witness ==
  /\ pc = "exit"
  /\ ~hdr_only
  /\ Len(fin.lines) = 3
  /\ fin.lines[1] = "H30"
  /\ fin.lines[2] = "D17"
  /\ lnum = 2

\* C7: after a read returns, the header text of the reader is the
\* newline-joined text, in file order and without the "!", of every line of
\* the header block, lines without a key included.  Stated for files of at
\* least one line.
C7_HeaderTextIsWholeHeaderBlock ==
  (Returned /\ ~fin.log /\ fin.lines # <<>>) =>
    hdr = Some(join(NL, [i \in DOMAIN HeaderBlock(fin.lines) |->
                           rstrip(Tail(LineText(HeaderBlock(fin.lines)[i])))]))

Schema(d) == <<d.ver, d.is_long, d.flds, d.req1>>

\* C8: during a read the version is set once, by the first header line that
\* carries the version key, and never overwritten; the schema is built once,
\* from that version, at the first line that is no header line; from then on
\* the reader keeps that schema, and a later "!" line changes neither the
\* version nor the header.
C8_VersionAndSchemaSetOnce ==
  [][pc = "reading" =>
       /\ ver # None => ver' = ver
       /\ (ver = None /\ ver' # None) =>
            /\ l_datobj = None
            /\ ver' = VersionOf(fin.lines[lnum'])
            /\ \A j \in 1..lnum : VersionOf(fin.lines[j]) = None
       /\ l_datobj # None =>
            /\ l_datobj' # None
            /\ Schema(l_datobj'[1]) = Schema(l_datobj[1])
            /\ hdrobj' = hdrobj
            /\ hdr' = hdr
       /\ (l_datobj = None /\ l_datobj' # None) =>
            /\ lnum' = FirstData(fin.lines)
            /\ ver = DeclaredVersion(fin.lines)
            /\ l_datobj'[1].ver = ver[1]
            /\ l_datobj'[1].flds = gaf_columns[ver[1]]]_vars

C8_Witness ==
  /\ pc = "reading"
  /\ fin.lines = <<"H21", "H10", "D15">>
  /\ lnum = 3
  /\ l_datobj # None
  /\ l_datobj[1].ver = V21

\* a token "prefix:integer"
TaxonToken(t) ==
  \E k \in DOMAIN t :
    /\ t[k] = ":"
    /\ \A j \in 1..(k - 1) : t[j] # ":"
    /\ k < Len(t)
    /\ \A j \in (k + 1)..Len(t) : IsDigit(t[j])

TaxonId(t) ==
  LET k == CHOOSE j \in DOMAIN t : t[j] = ":" /\ \A h \in 1..(j - 1) : t[h] # ":"
  IN  DecimalValue(SubSeq(t, k + 1, Len(t)))

\* C9: the taxon list of a field is the ids of its non-empty "|"-separated
\* tokens in order; an empty token (trailing or doubled "|") is skipped
\* without raising, and the empty field gives the empty list.  Stated for
\* the fields whose non-empty tokens are all prefix:integer.
C9_EmptyTaxonTokensSkipped ==
  LET tokens == SelectSeq(split(taxon_str, "|"), LAMBDA t : t # <<>>)
  IN  (taxons_int # None /\ \A i \in DOMAIN tokens : TaxonToken(tokens[i])) =>
        taxons_int[1] = Ok([i \in DOMAIN tokens |-> TaxonId(tokens[i])])

\* C10: init_associations never writes the file it reads: the file at
\* fin_gaf holds after every call what it held before.
C10_InputFileNeverWritten == ~fin.log

=============================================================================
